---- MODULE Spec2Model ----
(***************************************************************************)
(* Crawl core of web_scanner: the URL filter (WebCrawler._normalize_url,  *)
(* _is_valid_url, _filter_links), the navigation retry                     *)
(* (retry_with_backoff), the page fetch (WebCrawler._fetch_page) and the   *)
(* worker pool over the shared asyncio queue (WebCrawler._worker,          *)
(* WebCrawler.crawl).  URLs are strings; TLC evaluates Len, SubSeq and \o  *)
(* on strings, so the URL functions are computed character by character   *)
(* as urllib.parse computes them.                                          *)
(***************************************************************************)
EXTENDS Integers, Sequences, FiniteSets, TLC

(***************************************************************************)
(* Bounds of the model (not program constants).                            *)
(***************************************************************************)
\* concurrent_requests arguments tried: 0 (None, the settings default) .. MaxConcurrency
MaxConcurrency == 2
\* max_depth arguments tried: 0 (or None) .. MaxDepthArg
MaxDepthArg == 2
\* max_pages arguments tried: 0 (or None) .. MaxPagesArg
MaxPagesArg == 2
\* max_retries arguments of retry_with_backoff tried: 0 .. MaxRetriesArg
MaxRetriesArg == 3
\* the link lists given to _filter_links hold up to MaxLinks links
MaxLinks == 2

(***************************************************************************)
(* Program constants: the defaults of config.Settings.                     *)
(***************************************************************************)
SettingsMaxDepth == 3
SettingsMaxPages == 100
SettingsConcurrentRequests == 3
SettingsMaxRetries == 2
\* retry_with_backoff(navigate, max_retries, base_delay=1.0), max_delay default 10.0
BaseDelay == 1
MaxDelay == 10

(***************************************************************************)
(* Strings, as Python's str methods compute them.  A value used more than  *)
(* once is passed on as an operator argument.                              *)
(***************************************************************************)
CharAt(s, i) == SubSeq(s, i, i)

\* s[i:] with i counted from 1
Drop(s, i) == SubSeq(s, i, Len(s))

StartsWith(s, p) == Len(p) <= Len(s) /\ SubSeq(s, 1, Len(p)) = p

EndsWith(s, p) == Len(p) <= Len(s) /\ SubSeq(s, Len(s) - Len(p) + 1, Len(s)) = p

RECURSIVE Find(_, _, _)
\* str.find(c, start): the first position >= from holding character c, 0 if none
Find(s, c, from) ==
    IF from > Len(s) THEN 0
    ELSE IF CharAt(s, from) = c THEN from
    ELSE Find(s, c, from + 1)

RECURSIVE RFind(_, _, _)
\* str.rfind(c): the last position <= from holding character c, 0 if none
RFind(s, c, from) ==
    IF from < 1 THEN 0
    ELSE IF CharAt(s, from) = c THEN from
    ELSE RFind(s, c, from - 1)

RECURSIVE RStrip(_, _)
\* str.rstrip(c) for a one-character c
RStrip(s, c) ==
    IF Len(s) > 0 /\ CharAt(s, Len(s)) = c
    THEN RStrip(SubSeq(s, 1, Len(s) - 1), c)
    ELSE s

UpperAlpha == "ABCDEFGHIJKLMNOPQRSTUVWXYZ"
LowerAlpha == "abcdefghijklmnopqrstuvwxyz"
Letters == "abcdefghijklmnopqrstuvwxyzABCDEFGHIJKLMNOPQRSTUVWXYZ"
\* urllib.parse.scheme_chars
SchemeChars == "abcdefghijklmnopqrstuvwxyzABCDEFGHIJKLMNOPQRSTUVWXYZ0123456789+-."

IsIn(c, alphabet) == Find(alphabet, c, 1) > 0

\* the lower-case form of c, i being its position in UpperAlpha (0: not upper case)
LowerAt(c, i) == IF i = 0 THEN c ELSE CharAt(LowerAlpha, i)

LowerChar(c) == LowerAt(c, Find(UpperAlpha, c, 1))

RECURSIVE Lower(_)
\* str.lower() on ASCII
Lower(s) == IF s = "" THEN "" ELSE LowerChar(CharAt(s, 1)) \o Lower(Drop(s, 2))

\* the pieces of s around its first c at position i (0: no c)
RECURSIVE SplitAt(_, _, _)
SplitAt(s, c, i) ==
    IF i = 0 THEN << s >>
    ELSE << SubSeq(s, 1, i - 1) >>
         \o SplitAt(Drop(s, i + 1), c, Find(Drop(s, i + 1), c, 1))

\* str.split(c): the pieces between the occurrences of c
Split(s, c) == SplitAt(s, c, Find(s, c, 1))

RECURSIVE Join(_, _)
\* c.join(parts)
Join(parts, c) ==
    IF parts = << >> THEN ""
    ELSE IF Len(parts) = 1 THEN parts[1]
    ELSE parts[1] \o c \o Join(Tail(parts), c)

\* x in list
InSeq(x, seq) == \E i \in 1..Len(seq) : seq[i] = x

(***************************************************************************)
(* urllib.parse as the crawler uses it.  The alphabet of the model has no  *)
(* '[' ']' (IPv6 hosts), no whitespace or control characters.              *)
(***************************************************************************)
\* urlsplit's scheme test, colon being the position of the first ':': a first
\* letter and scheme characters only before it
HasSchemeAt(url, colon) ==
    /\ colon > 1
    /\ IsIn(CharAt(url, 1), Letters)
    /\ \A j \in 1..(colon - 1) : IsIn(CharAt(url, j), SchemeChars)

RECURSIVE NetlocEndFrom(_, _)
\* _splitnetloc: the first position >= i of rest holding one of / ? #, else len + 1
NetlocEndFrom(rest, i) ==
    IF i > Len(rest) THEN Len(rest) + 1
    ELSE IF CharAt(rest, i) \in {"/", "?", "#"} THEN i
    ELSE NetlocEndFrom(rest, i + 1)

\* urllib.parse.uses_params
UsesParams ==
    {"", "ftp", "hdl", "prospero", "http", "imap", "https", "shttp", "rtsp",
     "rtsps", "rtspu", "sip", "sips", "mms", "sftp", "tel"}

\* _splitparams: the position of the ';' that starts the params, searched from
\* the last '/' (at slash; 0: no '/') on; 0 if none
ParamsFrom(path, slash) == Find(path, ";", IF slash > 0 THEN slash ELSE 1)

\* urlparse, last step: the params are what follows the ';' at semi in the path
\* that urlsplit gave
ParseParamsAt(scheme, netloc, path, query, fragment, semi) ==
    [scheme |-> scheme, netloc |-> netloc,
     path |-> IF semi > 0 THEN SubSeq(path, 1, semi - 1) ELSE path,
     params |-> IF semi > 0 THEN Drop(path, semi + 1) ELSE "",
     query |-> query, fragment |-> fragment]

\* urlparse after urlsplit: params are split off for the schemes of uses_params
ParseSplit(scheme, netloc, path, query, fragment) ==
    ParseParamsAt(scheme, netloc, path, query, fragment,
                  IF scheme \in UsesParams
                  THEN ParamsFrom(path, RFind(path, "/", Len(path))) ELSE 0)

\* urlsplit, last step: the query is what follows the first '?' (at qm)
ParseQueryAt(scheme, netloc, r3, fragment, qm) ==
    ParseSplit(scheme, netloc,
               IF qm > 0 THEN SubSeq(r3, 1, qm - 1) ELSE r3,
               IF qm > 0 THEN Drop(r3, qm + 1) ELSE "",
               fragment)

\* urlsplit: the fragment is what follows the first '#' (at hash)
ParseFragmentAt(scheme, netloc, r2, hash) ==
    ParseQueryAt(scheme, netloc,
                 IF hash > 0 THEN SubSeq(r2, 1, hash - 1) ELSE r2,
                 IF hash > 0 THEN Drop(r2, hash + 1) ELSE "",
                 Find(IF hash > 0 THEN SubSeq(r2, 1, hash - 1) ELSE r2, "?", 1))

\* urlsplit: the netloc follows a leading "//" and ends at ne
ParseNetlocAt(scheme, r1, ne) ==
    ParseFragmentAt(scheme,
                    IF StartsWith(r1, "//") THEN SubSeq(r1, 3, ne - 1) ELSE "",
                    IF StartsWith(r1, "//") THEN Drop(r1, ne) ELSE r1,
                    Find(IF StartsWith(r1, "//") THEN Drop(r1, ne) ELSE r1, "#", 1))

\* urlsplit: the scheme, lower-cased, is what precedes the first ':' (at colon)
ParseSchemeAt(url, default, colon, has_scheme) ==
    ParseNetlocAt(IF has_scheme THEN Lower(SubSeq(url, 1, colon - 1)) ELSE default,
                  IF has_scheme THEN Drop(url, colon + 1) ELSE url,
                  NetlocEndFrom(IF has_scheme THEN Drop(url, colon + 1) ELSE url, 3))

ParseColonAt(url, default, colon) ==
    ParseSchemeAt(url, default, colon, HasSchemeAt(url, colon))

\* urlparse(url, scheme=default): scheme, netloc, path, params, query, fragment
UrlParseDefault(url, default) == ParseColonAt(url, default, Find(url, ":", 1))

UrlParse(url) == UrlParseDefault(url, "")

UsesRelative ==
    {"", "ftp", "http", "gopher", "nntp", "imap", "wais", "file", "https",
     "shttp", "mms", "prospero", "rtsp", "rtspu", "sftp", "svn", "svn+ssh",
     "ws", "wss"}

UsesNetloc ==
    {"", "ftp", "http", "gopher", "nntp", "telnet", "imap", "wais", "file",
     "mms", "https", "shttp", "snews", "prospero", "rtsp", "rtspu", "rsync",
     "svn", "svn+ssh", "sftp", "nfs", "git", "git+ssh", "ws", "wss"}

\* urlunsplit((scheme, netloc, path, query, fragment))
UrlUnsplit(scheme, netloc, path, query, fragment) ==
    (IF scheme # "" THEN scheme \o ":" ELSE "")
    \o (IF netloc # "" \/ (scheme # "" /\ scheme \in UsesNetloc /\ ~StartsWith(path, "//"))
        THEN "//" \o netloc \o (IF path # "" /\ ~StartsWith(path, "/") THEN "/" ELSE "")
        ELSE "")
    \o path
    \o (IF query # "" THEN "?" \o query ELSE "")
    \o (IF fragment # "" THEN "#" \o fragment ELSE "")

\* urlunparse((scheme, netloc, path, params, query, fragment))
UrlUnparse(scheme, netloc, path, params, query, fragment) ==
    UrlUnsplit(scheme, netloc,
               IF params # "" THEN path \o ";" \o params ELSE path,
               query, fragment)

\* segments[1:-1] = filter(None, segments[1:-1])
DropEmptyInner(segs) ==
    IF Len(segs) <= 2 THEN segs
    ELSE << segs[1] >>
         \o SelectSeq(SubSeq(segs, 2, Len(segs) - 1), LAMBDA x : x # "")
         \o << segs[Len(segs)] >>

RECURSIVE ResolveDots(_, _)
\* urljoin's loop over the segments: '..' pops, '.' is skipped
ResolveDots(segs, acc) ==
    IF segs = << >> THEN acc
    ELSE IF Head(segs) = ".."
    THEN ResolveDots(Tail(segs),
                     IF acc = << >> THEN acc ELSE SubSeq(acc, 1, Len(acc) - 1))
    ELSE IF Head(segs) = "." THEN ResolveDots(Tail(segs), acc)
    ELSE ResolveDots(Tail(segs), Append(acc, Head(segs)))

\* base_parts of urljoin: the base path's pieces without a non-empty last one
BaseParts(bp) == IF bp[Len(bp)] # "" THEN SubSeq(bp, 1, Len(bp) - 1) ELSE bp

\* the resolved path of urljoin for the segments
ResolvedPath(segments) ==
    Join(ResolveDots(segments, << >>)
         \o (IF segments[Len(segments)] \in {".", ".."} THEN << "" >> ELSE << >>), "/")

\* '/'.join(resolved_path) or '/'
OrSlash(joined) == IF joined = "" THEN "/" ELSE joined

\* urljoin: the path of url resolved against the path of base
JoinPaths(bpath, path) ==
    OrSlash(ResolvedPath(IF StartsWith(path, "/") THEN Split(path, "/")
                         ELSE DropEmptyInner(BaseParts(Split(bpath, "/"))
                                             \o Split(path, "/"))))

\* urljoin, b and u being the parsed base and the parsed url
UrlJoinParsed(url, b, u) ==
    IF u.scheme # b.scheme \/ u.scheme \notin UsesRelative THEN url
    ELSE IF u.scheme \in UsesNetloc /\ u.netloc # ""
    THEN UrlUnparse(u.scheme, u.netloc, u.path, u.params, u.query, u.fragment)
    ELSE UrlUnparse(u.scheme,
                    IF u.scheme \in UsesNetloc THEN b.netloc ELSE u.netloc,
                    IF u.path = "" /\ u.params = "" THEN b.path
                    ELSE JoinPaths(b.path, u.path),
                    IF u.path = "" /\ u.params = "" THEN b.params ELSE u.params,
                    IF u.path = "" /\ u.params = "" /\ u.query = "" THEN b.query
                    ELSE u.query,
                    u.fragment)

UrlJoinBase(url, b) == UrlJoinParsed(url, b, UrlParseDefault(url, b.scheme))

\* urllib.parse.urljoin(base, url)
UrlJoin(base, url) ==
    IF base = "" THEN url
    ELSE IF url = "" THEN base
    ELSE UrlJoinBase(url, UrlParse(base))

(***************************************************************************)
(* WebCrawler: the URL filter.                                             *)
(***************************************************************************)
\* _normalize_url after urlparse
NormalizeParsed(parsed) ==
    RStrip(parsed.scheme \o "://" \o parsed.netloc \o parsed.path
           \o (IF parsed.query # "" THEN "?" \o parsed.query ELSE ""), "/")

\* WebCrawler._normalize_url
NormalizeUrl(url) == NormalizeParsed(UrlParse(url))

\* skip_extensions of WebCrawler._is_valid_url
SkipExtensions ==
    {".pdf", ".jpg", ".jpeg", ".png", ".gif", ".svg", ".ico",
     ".css", ".js", ".xml", ".json", ".zip", ".tar", ".gz",
     ".mp3", ".mp4", ".avi", ".mov", ".webm", ".woff", ".woff2",
     ".ttf", ".eot", ".map"}

\* any(path_lower.endswith(ext) for ext in skip_extensions)
HasSkipExtension(path_lower) == \E ext \in SkipExtensions : EndsWith(path_lower, ext)

\* IsValidParsed taking the pages of a subdomain too
IsValidParsedSubdomains(parsed, base_domain) ==
    IF ~EndsWith(parsed.netloc, base_domain) THEN FALSE
    ELSE IF parsed.scheme \notin {"http", "https"} THEN FALSE
    ELSE IF HasSkipExtension(Lower(parsed.path)) THEN FALSE
    ELSE TRUE

\* _is_valid_url after urlparse (urlparse raises on none of the model's URLs)
IsValidParsed(parsed, base_domain) ==
    IF parsed.netloc # base_domain THEN FALSE
    ELSE IF parsed.scheme \notin {"http", "https"} THEN FALSE
    ELSE IF HasSkipExtension(Lower(parsed.path)) THEN FALSE
    ELSE TRUE

\* WebCrawler._is_valid_url
IsValidUrl(url, base_domain) == IsValidParsed(UrlParse(url), base_domain)

\* FilterOne without the test `normalized not in filtered`
FilterOneKeepDuplicates(normalized, base_domain, filtered) ==
    IF IsValidUrl(normalized, base_domain)
    THEN Append(filtered, normalized)
    ELSE filtered

\* the body of the loop of _filter_links for one link, normalized
FilterOne(normalized, base_domain, filtered) ==
    IF IsValidUrl(normalized, base_domain) /\ ~InSeq(normalized, filtered)
    THEN Append(filtered, normalized)
    ELSE filtered

RECURSIVE FilterLinksFrom(_, _, _, _)
\* the loop of WebCrawler._filter_links, filtered being the list built so far
FilterLinksFrom(links, current_url, base_domain, filtered) ==
    IF links = << >> THEN filtered
    ELSE FilterLinksFrom(Tail(links), current_url, base_domain,
                         FilterOne(NormalizeUrl(UrlJoin(current_url, Head(links))),
                                   base_domain, filtered))

\* WebCrawler._filter_links
FilterLinks(links, current_url, base_domain) ==
    FilterLinksFrom(links, current_url, base_domain, << >>)

(***************************************************************************)
(* Optional values (T | None) and the page record of models.py.           *)
(***************************************************************************)
None == << >>
Some(v) == << v >>

\* models.PageStatus
PageStatus == {"SUCCESS", "ERROR", "TIMEOUT", "BLOCKED", "NOT_FOUND"}

\* models.CrawledPage; the fields the crawl core reads or a claim names
CrawledPage(url, status, status_code, links, depth, error_message) ==
    [url |-> url, status |-> status, status_code |-> status_code,
     links |-> links, depth |-> depth, error_message |-> error_message,
     screenshot_path |-> None]

(***************************************************************************)
(* State.                                                                  *)
(***************************************************************************)
VARIABLES
    call,                \* the function called on its own, and its arguments
    result,              \* what the call returned: None before it returns
    args,                \* the caller's constructor arguments
    site,                \* the site being crawled
    base_url,            \* self.base_url
    base_domain,         \* self.base_domain
    max_depth,           \* self.max_depth
    max_pages,           \* self.max_pages
    concurrent_requests, \* self.concurrent_requests
    screenshot_dir,      \* self.screenshot_dir
    capture_screenshots, \* self.capture_screenshots
    visited_urls,        \* self.visited_urls
    crawled_pages,       \* self.crawled_pages
    url_queue,           \* the items of self.url_queue, oldest first
    unfinished_tasks,    \* self.url_queue's count of items put and not yet task_done
    semaphore,           \* the free permits of self._semaphore
    browser,             \* the BrowserManager: "none", "started", "stopped"
    crawl_pc,            \* where crawl() stands
    worker_pc,           \* where each _worker task stands
    worker_item,         \* the (url, depth) a worker holds
    fetch_count          \* instrumentation: how often _fetch_page was called per URL

\* the state of a WebCrawler and its crawl()
crawler_vars ==
    << args, site, base_url, base_domain, max_depth, max_pages, concurrent_requests,
       screenshot_dir, capture_screenshots, visited_urls, crawled_pages, url_queue, unfinished_tasks, semaphore, browser,
       crawl_pc, worker_pc, worker_item, fetch_count >>

vars == << call, result, crawler_vars >>

\* what no step of crawl() changes
config_vars ==
    << call, result, args, site, base_url, base_domain, max_depth, max_pages,
       concurrent_requests, screenshot_dir, capture_screenshots >>

(***************************************************************************)
(* The renderer, seen from one page fetch.  A page answers each            *)
(* page.goto call of the fetch with one outcome, and then the extraction   *)
(* calls (content, text, title, links).                                    *)
(***************************************************************************)
\* what one page.goto call does: a response below 400, a response >= 400,
\* no response, a PlaywrightTimeout, another exception
NavOutcomes == {"ok", "http_error", "no_response", "timeout", "exception"}

\* what happens in _wait_for_dynamic_content after a response below 400: the
\* selector wait times out, the network-idle wait times out, the settle delay
\* page.wait_for_timeout raises (the page is gone), a scroll evaluate raises
SettleOutcomes == {"selector_timeout", "idle_timeout", "delay_error", "scroll_error"}

\* what one SmartPageLoader.goto call meets
GotoOutcomes == NavOutcomes \cup SettleOutcomes

\* what page.screenshot does: return, raise
ShotOutcomes == {"ok", "fails"}

\* what the extraction calls after a successful navigation do: return, raise an
\* exception, raise a PlaywrightTimeout
ExtractOutcomes == {"ok", "throws", "timeout"}

\* SmartPageLoader.get_links, the test on one anchor's href
KeepsHref(href) ==
    /\ href # ""
    /\ ~StartsWith(href, "javascript:")
    /\ ~StartsWith(href, "mailto:")
    /\ ~StartsWith(href, "tel:")

RECURSIVE GetLinksFrom(_, _)
\* the loop of get_links over the anchors; [...new Set(links)] keeps the first
\* occurrence of each href
GetLinksFrom(hrefs, links) ==
    IF hrefs = << >> THEN links
    ELSE GetLinksFrom(Tail(hrefs),
                      IF KeepsHref(Head(hrefs)) /\ ~InSeq(Head(hrefs), links)
                      THEN Append(links, Head(hrefs)) ELSE links)

\* SmartPageLoader.get_links for a page whose anchors have these hrefs
GetLinks(hrefs) == GetLinksFrom(hrefs, << >>)

\* Goto without the test of response.status
GotoAnyResponse(outcome) == outcome \in {"ok", "http_error"}

\* lines 134-152: page.goto returns a response with status < 400
Responds(outcome) ==
    outcome \notin {"http_error", "no_response", "timeout", "exception"}

\* _wait_for_dynamic_content raises: PlaywrightTimeout is caught at lines 174 and
\* 183 and every exception of the scroll at line 210; line 187 has no handler
SettleRaises(outcome) == outcome = "delay_error"

\* Goto where a timeout of a settle wait fails the load
GotoTimeoutsFatal(outcome) ==
    /\ Responds(outcome)
    /\ outcome \notin {"selector_timeout", "idle_timeout", "delay_error"}

\* SmartPageLoader.goto: True iff page.goto returned a response with status < 400
\* and _wait_for_dynamic_content returned; every exception and every other answer
\* gives False
Goto(outcome) == Responds(outcome) /\ ~SettleRaises(outcome)

RECURSIVE RetryFrom(_, _, _, _, _, _)
\* the loop of retry_with_backoff from attempt on; func is navigate of _fetch_page,
\* which raises Exception("Navigation failed") when goto returns False
RetryFrom(script, attempt, max_retries, base_delay, max_delay, delays) ==
    IF attempt >= max_retries
    THEN [ok |-> FALSE, attempts |-> attempt, delays |-> delays,
          error |-> IF attempt = 0
                    THEN "exceptions must derive from BaseException"
                    ELSE "Navigation failed"]
    ELSE IF Goto(script[attempt + 1])
    THEN [ok |-> TRUE, attempts |-> attempt + 1, delays |-> delays, error |-> ""]
    ELSE RetryFrom(script, attempt + 1, max_retries, base_delay, max_delay,
                   IF attempt < max_retries - 1
                   THEN Append(delays,
                               IF base_delay * (2 ^ attempt) < max_delay
                               THEN base_delay * (2 ^ attempt) ELSE max_delay)
                   ELSE delays)

\* RetryWithBackoff with delays that are not capped
RetryWithBackoffUncapped(script, max_retries, base_delay, max_delay) ==
    RetryFrom(script, 0, max_retries, base_delay,
              base_delay * (2 ^ max_retries) + max_delay, << >>)

\* retry_with_backoff(navigate, max_retries, base_delay, max_delay)
RetryWithBackoff(script, max_retries, base_delay, max_delay) ==
    RetryFrom(script, 0, max_retries, base_delay, max_delay, << >>)

\* _trigger_lazy_loading: the calls it makes on the page; an exception in the
\* scroll loop (lines 196-204) skips the scroll to the top (line 207)
LazyLoadingSteps(outcome) ==
    IF outcome = "scroll_error" THEN << "scroll" >> ELSE << "scroll", "scroll_top" >>

\* _wait_for_dynamic_content: the calls it makes on the page
SettleSteps(outcome, wait_for_selector) ==
    (IF wait_for_selector # None THEN << "wait_for_selector" >> ELSE << >>)
    \o << "wait_for_load_state", "wait_for_timeout" >>
    \o (IF outcome = "delay_error" THEN << >> ELSE LazyLoadingSteps(outcome))

\* SmartPageLoader.goto: the calls it makes on the page
GotoSteps(outcome, wait_for_selector) ==
    << "goto" >>
    \o (IF Responds(outcome) THEN SettleSteps(outcome, wait_for_selector) ELSE << >>)

RECURSIVE NavigateSteps(_, _, _, _)
\* the calls made on the page by retry_with_backoff(navigate, ...) from attempt on
NavigateSteps(script, attempt, max_retries, wait_for_selector) ==
    IF attempt >= max_retries THEN << >>
    ELSE GotoSteps(script[attempt + 1], wait_for_selector)
         \o (IF Goto(script[attempt + 1]) THEN << >>
             ELSE NavigateSteps(script, attempt + 1, max_retries, wait_for_selector))

RECURSIVE LStrip(_, _)
\* str.lstrip(c) for a one-character c
LStrip(s, c) ==
    IF Len(s) > 0 /\ CharAt(s, 1) = c THEN LStrip(Drop(s, 2), c) ELSE s

RECURSIVE SafeName(_, _)
\* line 94: "/", "?" and "&" replaced by "_", from position i on
SafeName(path, i) ==
    IF i > Len(path) THEN ""
    ELSE (IF CharAt(path, i) \in {"/", "?", "&"} THEN "_" ELSE CharAt(path, i))
         \o SafeName(path, i + 1)

\* _url_to_filename(url, "png"); the eight hex digits of the query's MD5 are
\* written md5(query)
UrlToFilename(parsed) ==
    (IF RStrip(LStrip(parsed.path, "/"), "/") = "" THEN "index"
     ELSE SafeName(RStrip(LStrip(parsed.path, "/"), "/"), 1))
    \o (IF parsed.query # "" THEN "_md5(" \o parsed.query \o ")" ELSE "")
    \o ".png"

\* FetchAfterNav recording a page whose screenshot failed as an error
FetchAfterNavShotFatal(url, depth, page, nav) ==
    IF ~nav.ok
    THEN CrawledPage(url, "ERROR", None, << >>, depth, Some(nav.error))
    ELSE IF page.extract = "timeout"
    THEN CrawledPage(url, "TIMEOUT", None, << >>, depth, Some("Page load timed out"))
    ELSE IF page.extract = "throws"
         \/ (capture_screenshots /\ screenshot_dir # None /\ page.shot # "ok")
    THEN CrawledPage(url, "ERROR", None, << >>, depth,
                     Some("Execution context was destroyed"))
    ELSE [CrawledPage(url, "SUCCESS", Some(200),
                      FilterLinks(page.links, url, base_domain), depth, None)
          EXCEPT !.screenshot_path =
             IF capture_screenshots /\ screenshot_dir # None
             THEN Some(screenshot_dir[1] \o "/" \o UrlToFilename(UrlParse(url)))
             ELSE None]

\* lines 171-182: screenshot_path; capture_screenshot returns False on any
\* exception of page.screenshot
ScreenshotPath(url, page) ==
    IF capture_screenshots /\ screenshot_dir # None /\ page.shot = "ok"
    THEN Some(screenshot_dir[1] \o "/" \o UrlToFilename(UrlParse(url)))
    ELSE None

\* FetchAfterNav recording a failed navigation without its message
FetchAfterNavNoMessage(url, depth, page, nav) ==
    IF ~nav.ok
    THEN CrawledPage(url, "ERROR", None, << >>, depth, None)
    ELSE CrawledPage(url, "SUCCESS", Some(200),
                     FilterLinks(page.links, url, base_domain), depth, None)

\* _fetch_page after the navigation, nav being what retry_with_backoff gave
FetchAfterNav(url, depth, page, nav) ==
    IF ~nav.ok
    THEN CrawledPage(url, "ERROR", None, << >>, depth, Some(nav.error))
    ELSE IF page.extract = "timeout"
    THEN CrawledPage(url, "TIMEOUT", None, << >>, depth, Some("Page load timed out"))
    ELSE IF page.extract = "throws"
    THEN CrawledPage(url, "ERROR", None, << >>, depth,
                     Some("Execution context was destroyed"))
    ELSE [CrawledPage(url, "SUCCESS", Some(200),
                      FilterLinks(page.links, url, base_domain), depth, None)
          EXCEPT !.screenshot_path = ScreenshotPath(url, page)]

\* WebCrawler._fetch_page: the CrawledPage it returns for a page that answers the
\* page.goto calls as the script page.nav, the extraction calls as page.extract,
\* and holds the anchors page.links
FetchPage(url, depth, page) ==
    FetchAfterNav(url, depth, page,
                  RetryWithBackoff(page.nav, SettingsMaxRetries, BaseDelay, MaxDelay))

\* the calls _fetch_page makes on the page, in order: those of the navigation, then
\* the extraction (lines 165-168) and the screenshot (line 177);
\* wait_for_selector is settings.wait_for_selector
FetchSteps(page, wait_for_selector) ==
    NavigateSteps(page.nav, 0, SettingsMaxRetries, wait_for_selector)
    \o (IF ~RetryWithBackoff(page.nav, SettingsMaxRetries, BaseDelay, MaxDelay).ok
        THEN << >>
        ELSE << "extract" >>
             \o (IF page.extract = "ok" /\ capture_screenshots /\ screenshot_dir # None
                 THEN << "screenshot" >> ELSE << >>))

(***************************************************************************)
(* The sites crawled.  A site gives, for each URL it serves, the hrefs of  *)
(* the page's anchors as SmartPageLoader.get_links returns them, the       *)
(* answers to the successive page.goto calls of a fetch, and what the      *)
(* extraction calls do.                                                    *)
(***************************************************************************)
Ok == << "ok", "ok" >>

Page(links, nav, extract) ==
    [links |-> links, nav |-> nav, extract |-> extract, shot |-> "ok"]

\* the root links to three pages of its domain and to two external pages;
\* every page loads
SiteStar ==
    [u \in {"http://a", "http://a/p", "http://a/q", "http://a/r", "http://a/s"} |->
        CASE u = "http://a"   -> Page(<< "http://a/p", "http://a/q", "http://a/r",
                                         "http://b/x", "http://b/y" >>, Ok, "ok")
          [] u = "http://a/p" -> Page(<< "http://a/", "http://a/s" >>, Ok, "ok")
          [] u = "http://a/q" -> Page(<< "http://a/p", "http://a/i.png" >>, Ok, "ok")
          [] u = "http://a/r" -> Page(<< >>, Ok, "ok")
          [] u = "http://a/s" -> Page(<< "http://a/p" >>, Ok, "ok")]

\* the same page under several hrefs, pages linking to each other; one page
\* loads on the second attempt, one answers 404
SiteDup ==
    [u \in {"http://a", "http://a/p", "http://a/q", "http://a/t"} |->
        CASE u = "http://a"   -> Page(<< "http://a/p", "http://a/p#s", "http://a/q/" >>,
                                      Ok, "ok")
          [] u = "http://a/p" -> Page(<< "http://a/q", "http://a/" >>,
                                      << "timeout", "ok" >>, "ok")
          [] u = "http://a/q" -> Page(<< "http://a/p", "http://a/t", "/p" >>, Ok, "ok")
          [] u = "http://a/t" -> Page(<< "http://a/q", "http://a/u" >>,
                                      << "http_error", "http_error" >>, "ok")]

\* a chain five pages deep; one href is relative; the extraction of the fourth
\* page times out
SiteChain ==
    [u \in {"http://a", "http://a/1", "http://a/2", "http://a/3", "http://a/4"} |->
        CASE u = "http://a"   -> Page(<< "http://a/1" >>, Ok, "ok")
          [] u = "http://a/1" -> Page(<< "2" >>, Ok, "ok")
          [] u = "http://a/2" -> Page(<< "http://a/3", "http://a/1" >>, Ok, "ok")
          [] u = "http://a/3" -> Page(<< "http://a/4" >>, Ok, "timeout")
          [] u = "http://a/4" -> Page(<< >>, Ok, "ok")]

\* pages that fail: navigation timeouts, no response and then an exception, an
\* extraction that raises
SiteFlaky ==
    [u \in {"http://a", "http://a/p", "http://a/q", "http://a/r"} |->
        CASE u = "http://a"   -> Page(<< "http://a/p", "http://a/q", "http://a/r" >>,
                                      Ok, "ok")
          [] u = "http://a/p" -> Page(<< "http://a/v" >>, << "timeout", "timeout" >>, "ok")
          [] u = "http://a/q" -> Page(<< "http://a/v" >>, << "no_response", "exception" >>,
                                      "ok")
          [] u = "http://a/r" -> Page(<< "http://a/v" >>, Ok, "throws")]

\* the root itself answers 404
SiteDown ==
    [u \in {"http://a"} |->
        Page(<< "http://a/p", "http://a/q" >>, << "http_error", "http_error" >>, "ok")]

\* the root is also asked for with a fragment; page.screenshot fails on one page
SiteShots ==
    [u \in {"http://a", "http://a/#s", "http://a/p", "http://a/q"} |->
        CASE u = "http://a"    -> Page(<< "http://a/p" >>, Ok, "ok")
          [] u = "http://a/#s" -> Page(<< "http://a/p" >>, Ok, "ok")
          [] u = "http://a/p"  -> [Page(<< "http://a/", "http://a/q" >>, Ok, "ok")
                                   EXCEPT !.shot = "fails"]
          [] u = "http://a/q"  -> Page(<< >>, Ok, "ok")]

\* a page two links from the root on one path and three on another; every page
\* loads
SiteDiamond ==
    [u \in {"http://a", "http://a/p", "http://a/r", "http://a/q", "http://a/x",
            "http://a/y"} |->
        CASE u = "http://a"   -> Page(<< "http://a/p", "http://a/r" >>, Ok, "ok")
          [] u = "http://a/p" -> Page(<< "http://a/x" >>, Ok, "ok")
          [] u = "http://a/r" -> Page(<< "http://a/q" >>, Ok, "ok")
          [] u = "http://a/q" -> Page(<< "http://a/x" >>, Ok, "ok")
          [] u = "http://a/x" -> Page(<< "http://a/y" >>, Ok, "ok")
          [] u = "http://a/y" -> Page(<< >>, Ok, "ok")]

Sites == {SiteStar, SiteDup, SiteChain, SiteFlaky, SiteDown, SiteShots, SiteDiamond}

\* the page a site serves at url; any other URL answers 404
PageAt(s, url) ==
    IF url \in DOMAIN s THEN s[url]
    ELSE Page(<< >>, << "http_error", "http_error" >>, "ok")

\* base_url arguments of WebCrawler(...)
BaseUrlArgs == {"http://a/"}

(***************************************************************************)
(* WebCrawler.__init__: the falsy-default idiom `arg or settings.x`.       *)
(* An argument of 0 stands for 0 and for None alike.                       *)
(***************************************************************************)
\* self.max_depth = max_depth or settings.max_depth
EffectiveMaxDepth(arg) == IF arg = 0 THEN SettingsMaxDepth ELSE arg

\* self.max_pages = max_pages or settings.max_pages
EffectiveMaxPages(arg) == IF arg = 0 THEN SettingsMaxPages ELSE arg

\* self.concurrent_requests = concurrent_requests or settings.concurrent_requests
EffectiveConcurrency(arg) == IF arg = 0 THEN SettingsConcurrentRequests ELSE arg

\* arguments with a root URL that has a fragment, and with a screenshot directory
ScreenshotArgs ==
    { [base_url |-> x[1], max_depth |-> 2, max_pages |-> 0, concurrent_requests |-> c,
       screenshot_dir |-> x[2], capture_screenshots |-> x[3]] :
      c \in 1..MaxConcurrency,
      x \in { << "http://a/#s", None, TRUE >>, << "http://a/", Some("shots"), TRUE >>,
              << "http://a/", Some("shots"), FALSE >> } }

\* the arguments of WebCrawler(base_url, max_depth, max_pages, concurrent_requests,
\* screenshot_dir, capture_screenshots)
CrawlerArgs ==
    [base_url : BaseUrlArgs, max_depth : 0..MaxDepthArg, max_pages : 0..MaxPagesArg,
     concurrent_requests : 1..MaxConcurrency, screenshot_dir : {None},
     capture_screenshots : {TRUE}]
    \cup ScreenshotArgs

\* worker ids: range(self.concurrent_requests), counted from 1
Workers == 1..MaxConcurrency

(***************************************************************************)
(* The inputs of the functions called on their own.                        *)
(***************************************************************************)
\* the answers of func to the successive attempts of one retry_with_backoff call
NavScripts == [1..MaxRetriesArg -> NavOutcomes]

BaseDelayArgs == {1, 3}
MaxDelayArgs == {2, 10}

RetryCalls ==
    { << "retry_with_backoff",
         [script |-> sc, max_retries |-> m, base_delay |-> b, max_delay |-> d] >> :
      sc \in NavScripts, m \in 0..MaxRetriesArg, b \in BaseDelayArgs, d \in MaxDelayArgs }

\* URLs put together from their parts; no query or fragment is None
UrlParts ==
    [scheme : {"http", "https", "ftp"},
     host : {"a", "b", "w.a"},
     path : {"", "/", "/p", "/p/", "/i.png", "/I.PNG", "/p;v"},
     query : {None, Some(""), Some("q=1"), Some("r=/"), Some("/")},
     fragment : {None, Some("s"), Some("/")}]

BuildUrl(parts) ==
    parts.scheme \o "://" \o parts.host \o parts.path
    \o (IF parts.query # None THEN "?" \o parts.query[1] ELSE "")
    \o (IF parts.fragment # None THEN "#" \o parts.fragment[1] ELSE "")

\* strings that are no absolute http(s) URL
MalformedUrls ==
    {"", "#", "p", "/p", "//a/p", "http:/a/p", "http//a", "://a",
     "javascript:void(0)", "mailto:x@y", "tel:123"}

BuiltUrls == { BuildUrl(parts) : parts \in UrlParts }

UrlInputs == BuiltUrls \cup MalformedUrls

NormalizeCalls == { << "_normalize_url", [url |-> u] >> : u \in UrlInputs }

IsValidCalls ==
    { << "_is_valid_url", [url |-> u, base_domain |-> d] >> :
      u \in UrlInputs, d \in {"a", "w.a"} }

\* hrefs as a page holds them
RawLinks ==
    {"", "#", "#s", "/p", "q", "../r/", "http://a/p", "http://a/p/", "http://a/p#s",
     "http://a/d/e#", "https://a/p", "http://a/i.png", "http://b/x", "http://w.a/p",
     "javascript:void(0)", "mailto:x@y", "tel:123"}

\* the lists of up to MaxLinks raw links
LinkLists == UNION { [1..n -> RawLinks] : n \in 0..MaxLinks }

CurrentUrls == {"http://a", "http://a/d/e"}

FilterLinksCalls ==
    { << "_filter_links", [links |-> l, current_url |-> c, base_domain |-> "a"] >> :
      l \in LinkLists, c \in CurrentUrls }

ExtractLinksCalls ==
    { << "get_links", [hrefs |-> l, current_url |-> c, base_domain |-> "a"] >> :
      l \in LinkLists, c \in CurrentUrls }

\* the pages _fetch_page is called on
FetchedPages ==
    [links : {<< >>, << "http://a/q", "#" >>},
     nav : [1..SettingsMaxRetries -> GotoOutcomes],
     extract : ExtractOutcomes, shot : ShotOutcomes]

FetchPageCalls ==
    { << "_fetch_page",
         [url |-> "http://a/p", depth |-> 1, page |-> pg, wait_for_selector |-> sel,
          screenshot_dir |-> d] >> :
      pg \in FetchedPages, sel \in {None, Some("#app")}, d \in {None, Some("shots")} }

Calls ==
    RetryCalls \cup NormalizeCalls \cup IsValidCalls \cup FilterLinksCalls
    \cup ExtractLinksCalls \cup FetchPageCalls

\* no function is called
NoCall == << "", None >>

NoItem == << "", 0 >>

\* the state after WebCrawler(...) was constructed
CrawlerInit ==
    /\ args \in CrawlerArgs
    /\ site \in Sites
    /\ base_url = RStrip(args.base_url, "/")
    /\ base_domain = UrlParse(args.base_url).netloc
    /\ max_depth = EffectiveMaxDepth(args.max_depth)
    /\ max_pages = EffectiveMaxPages(args.max_pages)
    /\ concurrent_requests = EffectiveConcurrency(args.concurrent_requests)
    /\ screenshot_dir = args.screenshot_dir
    /\ capture_screenshots = args.capture_screenshots
    /\ visited_urls = {}
    /\ crawled_pages = << >>
    /\ url_queue = << >>
    /\ unfinished_tasks = 0
    /\ semaphore = 0
    /\ browser = "none"
    /\ crawl_pc = "start"
    /\ worker_pc = [w \in Workers |-> "unborn"]
    /\ worker_item = [w \in Workers |-> NoItem]
    /\ fetch_count = << >>

Init ==
    /\ call = NoCall
    /\ result = None
    /\ CrawlerInit

(***************************************************************************)
(* WebCrawler.crawl                                                        *)
(***************************************************************************)
\* crawl() up to `await self._browser_manager.start()`: the semaphore, the seed
CrawlBegin ==
    /\ crawl_pc = "start"
    /\ semaphore' = concurrent_requests
    /\ url_queue' = Append(url_queue, << base_url, 0 >>)
    /\ unfinished_tasks' = unfinished_tasks + 1
    /\ crawl_pc' = "starting"
    /\ UNCHANGED << config_vars, visited_urls, crawled_pages, browser, worker_pc,
                    worker_item, fetch_count >>

\* BrowserManager.start succeeds; crawl() creates the worker tasks and waits on join
BrowserStarts ==
    /\ crawl_pc = "starting"
    /\ browser' = "started"
    /\ worker_pc' = [w \in Workers |->
                        IF w <= concurrent_requests THEN "get" ELSE worker_pc[w]]
    /\ crawl_pc' = "join"
    /\ UNCHANGED << config_vars, visited_urls, crawled_pages, url_queue,
                    unfinished_tasks, semaphore, worker_item, fetch_count >>

\* BrowserManager.start raises: the exception leaves crawl() (it is outside the try)
BrowserStartFails ==
    /\ crawl_pc = "starting"
    /\ crawl_pc' = "raised"
    /\ UNCHANGED << config_vars, visited_urls, crawled_pages, url_queue,
                    unfinished_tasks, semaphore, browser, worker_pc, worker_item,
                    fetch_count >>

\* JoinReturns waiting for an empty queue instead of join()
JoinReturnsOnEmptyQueue ==
    /\ crawl_pc = "join"
    /\ url_queue = << >>
    /\ worker_pc' = [w \in Workers |->
                        IF worker_pc[w] \in {"unborn", "exited", "dead"}
                        THEN worker_pc[w] ELSE "cancelled"]
    /\ crawl_pc' = "stopping"
    /\ UNCHANGED << config_vars, visited_urls, crawled_pages, url_queue,
                    unfinished_tasks, semaphore, browser, worker_item, fetch_count >>

\* url_queue.join() returns; crawl() cancels every worker task
JoinReturns ==
    /\ crawl_pc = "join"
    /\ unfinished_tasks = 0
    /\ worker_pc' = [w \in Workers |->
                        IF worker_pc[w] \in {"unborn", "exited", "dead"}
                        THEN worker_pc[w] ELSE "cancelled"]
    /\ crawl_pc' = "stopping"
    /\ UNCHANGED << config_vars, visited_urls, crawled_pages, url_queue,
                    unfinished_tasks, semaphore, browser, worker_item,
                    fetch_count >>

\* finally: BrowserManager.stop; crawl() returns self.crawled_pages
BrowserStops ==
    /\ crawl_pc = "stopping"
    /\ browser' = "stopped"
    /\ crawl_pc' = "returned"
    /\ UNCHANGED << config_vars, visited_urls, crawled_pages, url_queue,
                    unfinished_tasks, semaphore, worker_pc, worker_item,
                    fetch_count >>

(***************************************************************************)
(* WebCrawler._worker                                                      *)
(***************************************************************************)
\* ShouldSkip without the visited test
ShouldSkipCeilingOnly(url) == Len(crawled_pages) >= max_pages

\* an off-by-one ceiling test
ShouldSkipAboveCeiling(url) == url \in visited_urls \/ Len(crawled_pages) > max_pages

\* ShouldSkip without the page ceiling
ShouldSkipVisitedOnly(url) == url \in visited_urls

\* line 226: the dequeued entry is dropped
ShouldSkip(url) == url \in visited_urls \/ Len(crawled_pages) >= max_pages

\* ShouldEnqueue with <= for <
ShouldEnqueueInclusive(page, depth) == page.status = "SUCCESS" /\ depth <= max_depth

\* ShouldEnqueue stopping one level early
ShouldEnqueueShallow(page, depth) == page.status = "SUCCESS" /\ depth + 1 < max_depth

\* line 241: the links of the fetched page go to the queue
ShouldEnqueue(page, depth) == page.status = "SUCCESS" /\ depth < max_depth

\* WithDepth counting one level too many
WithDepthPlusOne(fresh, depth) == [i \in 1..Len(fresh) |-> << fresh[i], depth + 1 >>]

\* lines 242-244: the entries put for the links of a page fetched at depth
WithDepth(fresh, depth) == [i \in 1..Len(fresh) |-> << fresh[i], depth >>]

\* NewEntries giving the links the depth of their parent
NewEntriesSameDepth(links, depth) ==
    WithDepth(SelectSeq(links, LAMBDA link : link \notin visited_urls), depth)

NewEntries(links, depth) ==
    WithDepth(SelectSeq(links, LAMBDA link : link \notin visited_urls), depth + 1)

\* Dequeue handing out the newest entry
DequeueNewest(w) ==
    /\ worker_pc[w] = "get"
    /\ url_queue # << >>
    /\ worker_item' = [worker_item EXCEPT ![w] = url_queue[Len(url_queue)]]
    /\ url_queue' = SubSeq(url_queue, 1, Len(url_queue) - 1)
    /\ worker_pc' = [worker_pc EXCEPT ![w] = "got"]
    /\ UNCHANGED << config_vars, visited_urls, crawled_pages, unfinished_tasks,
                    semaphore, browser, crawl_pc, fetch_count >>

\* url_queue.get() hands the oldest entry to a waiting worker
Dequeue(w) ==
    /\ worker_pc[w] = "get"
    /\ url_queue # << >>
    /\ worker_item' = [worker_item EXCEPT ![w] = Head(url_queue)]
    /\ url_queue' = Tail(url_queue)
    /\ worker_pc' = [worker_pc EXCEPT ![w] = "got"]
    /\ UNCHANGED << config_vars, visited_urls, crawled_pages, unfinished_tasks,
                    semaphore, browser, crawl_pc, fetch_count >>

\* IdleTimeout expiring whether or not the queue holds an entry
IdleTimeoutAnyQueue(w) ==
    /\ worker_pc[w] = "get"
    /\ worker_pc' = [worker_pc EXCEPT ![w] = "exited"]
    /\ UNCHANGED << config_vars, visited_urls, crawled_pages, url_queue,
                    unfinished_tasks, semaphore, browser, crawl_pc, worker_item,
                    fetch_count >>

\* asyncio.wait_for(..., timeout=5.0) expires on an empty queue: the worker ends
IdleTimeout(w) ==
    /\ worker_pc[w] = "get"
    /\ url_queue = << >>
    /\ worker_pc' = [worker_pc EXCEPT ![w] = "exited"]
    /\ UNCHANGED << config_vars, visited_urls, crawled_pages, url_queue,
                    unfinished_tasks, semaphore, browser, crawl_pc, worker_item,
                    fetch_count >>

\* Discard putting the dropped entry back at the end of the queue
DiscardRequeues(w) ==
    /\ worker_pc[w] = "got"
    /\ ShouldSkip(worker_item[w][1])
    /\ url_queue' = Append(url_queue, worker_item[w])
    /\ worker_item' = [worker_item EXCEPT ![w] = NoItem]
    /\ worker_pc' = [worker_pc EXCEPT ![w] = "get"]
    /\ UNCHANGED << config_vars, visited_urls, crawled_pages, unfinished_tasks,
                    semaphore, browser, crawl_pc, fetch_count >>

\* Discard marking the dropped URL as visited
DiscardMarksVisited(w) ==
    /\ worker_pc[w] = "got"
    /\ ShouldSkip(worker_item[w][1])
    /\ visited_urls' = visited_urls \cup {worker_item[w][1]}
    /\ unfinished_tasks' = unfinished_tasks - 1
    /\ worker_item' = [worker_item EXCEPT ![w] = NoItem]
    /\ worker_pc' = [worker_pc EXCEPT ![w] = "get"]
    /\ UNCHANGED << config_vars, crawled_pages, url_queue, semaphore, browser,
                    crawl_pc, fetch_count >>

\* Discard without task_done
DiscardNoTaskDone(w) ==
    /\ worker_pc[w] = "got"
    /\ ShouldSkip(worker_item[w][1])
    /\ worker_item' = [worker_item EXCEPT ![w] = NoItem]
    /\ worker_pc' = [worker_pc EXCEPT ![w] = "get"]
    /\ UNCHANGED << config_vars, visited_urls, crawled_pages, url_queue,
                    unfinished_tasks, semaphore, browser, crawl_pc, fetch_count >>

\* lines 226-228: visited already, or the page ceiling reached: task_done, continue
Discard(w) ==
    /\ worker_pc[w] = "got"
    /\ ShouldSkip(worker_item[w][1])
    /\ unfinished_tasks' = unfinished_tasks - 1
    /\ worker_item' = [worker_item EXCEPT ![w] = NoItem]
    /\ worker_pc' = [worker_pc EXCEPT ![w] = "get"]
    /\ UNCHANGED << config_vars, visited_urls, crawled_pages, url_queue, semaphore,
                    browser, crawl_pc, fetch_count >>

\* Claim leaving the URL out of visited_urls
ClaimWithoutInsert(w) ==
    /\ worker_pc[w] = "got"
    /\ ~ShouldSkip(worker_item[w][1])
    /\ worker_pc' = [worker_pc EXCEPT ![w] = "sem"]
    /\ UNCHANGED << config_vars, visited_urls, crawled_pages, url_queue,
                    unfinished_tasks, semaphore, browser, crawl_pc, worker_item,
                    fetch_count >>

\* line 230: the URL is claimed
Claim(w) ==
    /\ worker_pc[w] = "got"
    /\ ~ShouldSkip(worker_item[w][1])
    /\ visited_urls' = visited_urls \cup {worker_item[w][1]}
    /\ worker_pc' = [worker_pc EXCEPT ![w] = "sem"]
    /\ UNCHANGED << config_vars, crawled_pages, url_queue, unfinished_tasks,
                    semaphore, browser, crawl_pc, worker_item, fetch_count >>

\* line 232: async with self._semaphore
AcquirePermit(w) ==
    /\ worker_pc[w] = "sem"
    /\ semaphore > 0
    /\ semaphore' = semaphore - 1
    /\ worker_pc' = [worker_pc EXCEPT ![w] = "newpage"]
    /\ UNCHANGED << config_vars, visited_urls, crawled_pages, url_queue,
                    unfinished_tasks, browser, crawl_pc, worker_item,
                    fetch_count >>

\* the call counter of _fetch_page after one more call for url
Counted(count, url) ==
    IF url \in DOMAIN count THEN [count EXCEPT ![url] = @ + 1]
    ELSE [u \in DOMAIN count \cup {url} |-> IF u = url THEN 1 ELSE count[u]]

\* lines 236-237: new_page() opens a page and _fetch_page is called on it;
\* new_page() starts the browser again when it finds it stopped (browser.py
\* lines 84-85)
NewPage(w) ==
    /\ worker_pc[w] = "newpage"
    /\ fetch_count' = Counted(fetch_count, worker_item[w][1])
    /\ worker_pc' = [worker_pc EXCEPT ![w] = "fetch"]
    /\ browser' = IF browser = "stopped" THEN "started" ELSE browser
    /\ UNCHANGED << config_vars, visited_urls, crawled_pages, url_queue,
                    unfinished_tasks, semaphore, crawl_pc, worker_item >>

\* NewPageFails keeping the permit
NewPageFailsKeepsPermit(w) ==
    /\ worker_pc[w] = "newpage"
    /\ worker_pc' = [worker_pc EXCEPT ![w] = "dead"]
    /\ UNCHANGED << config_vars, visited_urls, crawled_pages, url_queue,
                    unfinished_tasks, semaphore, browser, crawl_pc, worker_item,
                    fetch_count >>

\* line 236: new_page() raises (the renderer is gone); the exception leaves the
\* semaphore block and ends the worker task, before task_done
NewPageFails(w) ==
    /\ worker_pc[w] = "newpage"
    /\ semaphore' = semaphore + 1
    /\ worker_pc' = [worker_pc EXCEPT ![w] = "dead"]
    /\ UNCHANGED << config_vars, visited_urls, crawled_pages, url_queue,
                    unfinished_tasks, browser, crawl_pc, worker_item,
                    fetch_count >>

\* RecordPage putting entries the queue does not count as unfinished
RecordPageUncounted(w, crawled_page, entries) ==
    /\ crawled_pages' = Append(crawled_pages, crawled_page)
    /\ url_queue' = url_queue \o entries
    /\ worker_pc' = [worker_pc EXCEPT ![w] = "close"]
    /\ UNCHANGED << config_vars, visited_urls, unfinished_tasks, semaphore,
                    browser, crawl_pc, worker_item, fetch_count >>

\* lines 238-244: crawled_page is appended; entries are put
RecordPage(w, crawled_page, entries) ==
    /\ crawled_pages' = Append(crawled_pages, crawled_page)
    /\ url_queue' = url_queue \o entries
    /\ unfinished_tasks' = unfinished_tasks + Len(entries)
    /\ worker_pc' = [worker_pc EXCEPT ![w] = "close"]
    /\ UNCHANGED << config_vars, visited_urls, semaphore, browser, crawl_pc,
                    worker_item, fetch_count >>

\* lines 240-244: the entries put for crawled_page
EntriesOf(crawled_page, depth) ==
    IF ShouldEnqueue(crawled_page, depth)
    THEN NewEntries(crawled_page.links, depth) ELSE << >>

\* lines 238-244 for the page _fetch_page returned
FetchDone(w, crawled_page) ==
    RecordPage(w, crawled_page, EntriesOf(crawled_page, worker_item[w][2]))

\* lines 237-244: _fetch_page returns; the page is appended and its links are put
FetchReturns(w) ==
    /\ worker_pc[w] = "fetch"
    /\ FetchDone(w, FetchPage(worker_item[w][1], worker_item[w][2],
                              PageAt(site, worker_item[w][1])))

\* the page is closed, the permit released, and line 246: task_done
ClosePage(w) ==
    /\ worker_pc[w] = "close"
    /\ semaphore' = semaphore + 1
    /\ unfinished_tasks' = unfinished_tasks - 1
    /\ worker_item' = [worker_item EXCEPT ![w] = NoItem]
    /\ worker_pc' = [worker_pc EXCEPT ![w] = "get"]
    /\ UNCHANGED << config_vars, visited_urls, crawled_pages, url_queue, browser,
                    crawl_pc, fetch_count >>

\* the steps of worker w between two awaits, the fetch apart
WorkerLoopStep(w) ==
    \/ Dequeue(w)
    \/ IdleTimeout(w)
    \/ Discard(w)
    \/ Claim(w)
    \/ AcquirePermit(w)
    \/ NewPage(w)
    \/ NewPageFails(w)
    \/ ClosePage(w)

WorkerStep(w) ==
    \/ WorkerLoopStep(w)
    \/ FetchReturns(w)

Next ==
    \/ CrawlBegin
    \/ BrowserStarts
    \/ BrowserStartFails
    \/ JoinReturns
    \/ BrowserStops
    \/ \E w \in Workers : WorkerStep(w)

Spec == Init /\ [][Next]_vars

\* every fetch ends: weak fairness of FetchReturns(w), whose enabling condition
\* is its guard worker_pc[w] = "fetch" (the action is total beyond the guard and
\* always changes worker_pc)
FetchEnds(w) ==
    []<>(worker_pc[w] # "fetch") \/ []<><<FetchReturns(w)>>_vars

\* the event loop runs every task that can run; every fetch ends; a worker
\* waiting on an empty queue times out
FairSpec ==
    /\ Spec
    /\ WF_vars(CrawlBegin)
    /\ WF_vars(BrowserStarts \/ BrowserStartFails)
    /\ WF_vars(JoinReturns)
    /\ WF_vars(BrowserStops)
    /\ \A w \in Workers : WF_vars(WorkerLoopStep(w))
    /\ \A w \in Workers : FetchEnds(w)

\* crawl() is cancelled while it waits on join (line 278): CancelledError leaves
\* the try before the worker tasks are cancelled (lines 281-282), the finally
\* stops the browser (line 286) and the exception leaves crawl()
CrawlCancelled ==
    /\ crawl_pc = "join"
    /\ browser' = "stopped"
    /\ crawl_pc' = "raised"
    /\ UNCHANGED << config_vars, visited_urls, crawled_pages, url_queue,
                    unfinished_tasks, semaphore, worker_pc, worker_item,
                    fetch_count >>

\* crawl() awaited by a caller that may cancel it
CancelNext ==
    \/ Next
    \/ CrawlCancelled

CancelSpec == Init /\ [][CancelNext]_vars

(***************************************************************************)
(* The functions called on their own: a call is drawn and returns.         *)
(***************************************************************************)
CallInit ==
    /\ call \in Calls
    /\ args = [base_url |-> "http://a/", max_depth |-> 2, max_pages |-> 0,
               concurrent_requests |-> 1,
               screenshot_dir |-> IF call[1] = "_fetch_page"
                                  THEN call[2].screenshot_dir ELSE None,
               capture_screenshots |-> TRUE]
    /\ site = SiteDown
    /\ CrawlerInit
    /\ result = None

\* the call of fn returns value
Returns(fn, value) ==
    /\ call[1] = fn
    /\ result = None
    /\ result' = Some(value)
    /\ UNCHANGED << call, crawler_vars >>

RetryWithBackoffCall ==
    Returns("retry_with_backoff",
            RetryWithBackoff(call[2].script, call[2].max_retries,
                             call[2].base_delay, call[2].max_delay))

NormalizeUrlCall == Returns("_normalize_url", NormalizeUrl(call[2].url))

IsValidUrlCall ==
    Returns("_is_valid_url", IsValidUrl(call[2].url, call[2].base_domain))

FilterLinksCall ==
    Returns("_filter_links",
            FilterLinks(call[2].links, call[2].current_url, call[2].base_domain))

\* _fetch_page lines 168-169: get_links, then _filter_links
ExtractLinksCall ==
    Returns("get_links",
            FilterLinks(GetLinks(call[2].hrefs), call[2].current_url,
                        call[2].base_domain))

\* _fetch_page, with the calls it made on the page
FetchPageCall ==
    Returns("_fetch_page",
            [page |-> FetchPage(call[2].url, call[2].depth, call[2].page),
             steps |-> FetchSteps(call[2].page, call[2].wait_for_selector)])

CallNext ==
    \/ FetchPageCall
    \/ RetryWithBackoffCall
    \/ NormalizeUrlCall
    \/ IsValidUrlCall
    \/ FilterLinksCall
    \/ ExtractLinksCall

CallSpec == CallInit /\ [][CallNext]_vars

(***************************************************************************)
(* Properties.                                                             *)
(***************************************************************************)
\* the URLs of the recorded pages
ResultUrls == { crawled_pages[i].url : i \in 1..Len(crawled_pages) }

\* the workers with a claimed URL whose page is not appended yet
InFlight == { w \in Workers : worker_pc[w] \in {"sem", "newpage", "fetch"} }

\* C1: whatever the number of workers and the site, _fetch_page is called at most
\* once for any URL during one crawl(), also when the URL is queued several times.
C1_AtMostOnceFetch == \A u \in DOMAIN fetch_count : fetch_count[u] <= 1

\* two workers, and a worker has dequeued an entry for a URL fetched before
C1_Witness ==
    /\ concurrent_requests = 2
    /\ \E w \in Workers : /\ worker_pc[w] = "got"
                          /\ worker_item[w][1] \in DOMAIN fetch_count

\* C2: for max_pages >= 1 the number of recorded pages never exceeds max_pages.
C2_PageCountBound == args.max_pages >= 1 => Len(crawled_pages) <= args.max_pages

\* the last page appended by a step
LastAppended == crawled_pages'[Len(crawled_pages')]

\* the workers whose task has not ended
LiveWorkers == { w \in Workers : worker_pc[w] \notin {"unborn", "exited", "dead", "cancelled"} }

\* every page.goto call of a fetch of this page fails
NavFails(page) == \A i \in 1..SettingsMaxRetries : page.nav[i] # "ok"

\* every page.goto call of a fetch of this page gets a response with status >= 400
HttpError(page) == \A i \in 1..SettingsMaxRetries : page.nav[i] = "http_error"

\* C3: unless the renderer fails (at its start, or opening a page), crawl()
\* eventually returns, whichever idle workers time out, for every number of
\* workers: the queue drains and join() completes.
C3_Termination ==
    <>(crawl_pc \in {"returned", "raised"} \/ \E w \in Workers : worker_pc[w] = "dead")

\* crawl() returned after one of two workers had timed out on the empty queue
C3_Witness ==
    /\ crawl_pc = "returned"
    /\ concurrent_requests = 2
    /\ Len(crawled_pages) >= 3
    /\ \E w \in Workers : worker_pc[w] = "exited"

\* C4: for every max_depth >= 0 the caller passes, no recorded page is deeper than
\* max_depth and no entry deeper than max_depth is handed to a fetch.
C4_DepthBound ==
    /\ \A i \in 1..Len(crawled_pages) : crawled_pages[i].depth <= args.max_depth
    /\ \A w \in InFlight : worker_item[w][2] <= args.max_depth

\* C5, one step: the fetch of a page whose navigation fails on every attempt adds
\* one page for that URL, not SUCCESS, with a non-empty error message; the worker
\* goes on, crawl() and the other workers and the queue are untouched.
C5_FailedFetchStep(w) ==
    (/\ worker_pc[w] = "fetch"
     /\ worker_pc'[w] # "fetch"
     /\ NavFails(PageAt(site, worker_item[w][1])))
    => /\ Len(crawled_pages') = Len(crawled_pages) + 1
       /\ SubSeq(crawled_pages', 1, Len(crawled_pages)) = crawled_pages
       /\ LastAppended.url = worker_item[w][1]
       /\ LastAppended.status \in PageStatus \ {"SUCCESS"}
       /\ LastAppended.error_message # None
       /\ LastAppended.error_message # Some("")
       /\ worker_pc'[w] = "close"
       /\ crawl_pc' = crawl_pc
       /\ url_queue' = url_queue
       /\ \A v \in Workers \ {w} : worker_pc'[v] = worker_pc[v]

\* C5: a failed page fetch gives exactly one page for its URL, with a status other
\* than SUCCESS and a non-empty error message, and stops neither crawl() nor a worker.
C5_FailedFetchRecorded ==
    /\ [][\A w \in Workers : C5_FailedFetchStep(w)]_vars
    /\ [](Cardinality(ResultUrls) = Len(crawled_pages))

\* crawl() returned, and a page was recorded after the page of a failed navigation
C5_Witness ==
    /\ crawl_pc = "returned"
    /\ \E i \in 1..Len(crawled_pages) :
          /\ NavFails(PageAt(site, crawled_pages[i].url))
          /\ crawled_pages[i].status = "ERROR"
          /\ i < Len(crawled_pages)

\* C6: when the renderer fails while a worker opens a page, crawl() raises: it
\* neither returns normally nor waits forever on join() with no worker left.
C6_InfraFailurePropagates ==
    (\E w \in Workers : worker_pc[w] = "dead")
    => /\ crawl_pc # "returned"
       /\ ~(crawl_pc = "join" /\ LiveWorkers = {})

\* C7: when crawl() returns, the recorded pages are exactly the claimed URLs, one
\* page each, failed fetches included.
C7_OneResultPerClaimedUrl ==
    crawl_pc = "returned"
    => /\ ResultUrls = visited_urls
       /\ Cardinality(ResultUrls) = Len(crawled_pages)

\* crawl() of two workers returned three or more pages, one of a failed fetch
C7_Witness ==
    /\ crawl_pc = "returned"
    /\ concurrent_requests = 2
    /\ Len(crawled_pages) >= 3
    /\ \E i \in 1..Len(crawled_pages) : crawled_pages[i].status # "SUCCESS"

\* C8, one step: entries are put (after the seed) only in a step that appends a
\* SUCCESS page; the fetch of a page answering >= 400 appends a page that is not
\* SUCCESS and puts nothing.
C8_EnqueueStep ==
    /\ (unfinished_tasks' > unfinished_tasks /\ crawl_pc # "start")
       => /\ Len(crawled_pages') = Len(crawled_pages) + 1
          /\ LastAppended.status = "SUCCESS"
    /\ \A w \in Workers :
          (/\ worker_pc[w] = "fetch"
           /\ worker_pc'[w] = "close"
           /\ HttpError(PageAt(site, worker_item[w][1])))
          => /\ LastAppended.status # "SUCCESS"
             /\ url_queue' = url_queue
             /\ unfinished_tasks' = unfinished_tasks

\* C8: links are put on the queue only from SUCCESS pages; a page answering 404
\* is recorded with another status and puts nothing.
C8_LinksOnlyFromSuccess == [][C8_EnqueueStep]_vars

\* a page answering >= 400, holding links and fetched above max_depth's last level,
\* was recorded, and crawl() returned
C8_Witness ==
    /\ crawl_pc = "returned"
    /\ \E i \in 1..Len(crawled_pages) :
          /\ HttpError(PageAt(site, crawled_pages[i].url))
          /\ PageAt(site, crawled_pages[i].url).links # << >>
          /\ crawled_pages[i].depth < max_depth
          /\ crawled_pages[i].status = "ERROR"

\* C9: with max_pages = 1 crawl() returns one page, the root at depth 0, and never
\* holds more, for every number of workers and every number of links of the root.
C9_MaxPagesOne ==
    args.max_pages = 1
    => /\ Len(crawled_pages) <= 1
       /\ crawl_pc = "returned"
          => /\ Len(crawled_pages) = 1
             /\ crawled_pages[1].url = base_url
             /\ crawled_pages[1].depth = 0

\* crawl() of two workers returned with max_pages = 1 from a root with 3 links
C9_Witness ==
    /\ crawl_pc = "returned"
    /\ args.max_pages = 1
    /\ concurrent_requests = 2
    /\ Len(crawled_pages) = 1
    /\ crawled_pages[1].status = "SUCCESS"
    /\ Len(crawled_pages[1].links) >= 3

\* C10: with max_depth = 1 and max_pages above the number of pages, when the root
\* loads, crawl() returns the root and the pages of its domain the root links to,
\* each at depth 1, and no external page; on the site whose root links to three
\* pages of its domain and two external ones, these are the four pages.
C10_DepthOneScenario ==
    (/\ crawl_pc = "returned"
     /\ args.max_depth = 1
     /\ max_pages > Cardinality(DOMAIN site)
     /\ crawled_pages[1].status = "SUCCESS")
    => /\ crawled_pages[1].url = base_url
       /\ crawled_pages[1].depth = 0
       /\ \A i \in 2..Len(crawled_pages) : crawled_pages[i].depth = 1
       /\ \A i \in 1..Len(crawled_pages) :
             UrlParse(crawled_pages[i].url).netloc = base_domain
       /\ ResultUrls = {base_url} \cup { crawled_pages[1].links[k] :
                                           k \in 1..Len(crawled_pages[1].links) }
       /\ \A u \in DOMAIN site :
             InSeq(u, PageAt(site, base_url).links) => u \in ResultUrls
       /\ site = SiteStar
          => ResultUrls = {"http://a", "http://a/p", "http://a/q", "http://a/r"}

\* crawl() of two workers returned the four pages of the star site
C10_Witness ==
    /\ crawl_pc = "returned"
    /\ args.max_depth = 1
    /\ args.max_pages = 0
    /\ concurrent_requests = 2
    /\ site = SiteStar
    /\ Len(crawled_pages) = 4

\* the links that the page recorded at position k put on the queue, but for the
\* ones visited by then
EnqueuedBy(k) ==
    IF ShouldEnqueue(crawled_pages[k], crawled_pages[k].depth)
    THEN crawled_pages[k].links ELSE << >>

\* the positions of the recorded pages that link to u and put their links
ParentsOf(u) == { k \in 1..Len(crawled_pages) : InSeq(u, EnqueuedBy(k)) }

\* the position of the first recorded page that put u on the queue
FirstParent(u) == CHOOSE k \in ParentsOf(u) : \A m \in ParentsOf(u) : k <= m

\* the position of u among the links of the page recorded at position k
LinkIndex(u, k) == CHOOSE n \in 1..Len(EnqueuedBy(k)) : EnqueuedBy(k)[n] = u

\* u was first put on the queue before v
EnqueuedBefore(u, v) ==
    \/ FirstParent(u) < FirstParent(v)
    \/ /\ FirstParent(u) = FirstParent(v)
       /\ LinkIndex(u, FirstParent(u)) < LinkIndex(v, FirstParent(v))

\* C11: with one worker the pages are recorded breadth first: depths never
\* decrease along crawled_pages, every page after the root was put on the queue by
\* an earlier page, and pages of equal depth stand in the order in which their
\* URLs were first put on the queue.
C11_BreadthFirstOrder ==
    concurrent_requests = 1
    => /\ \A i \in 1..(Len(crawled_pages) - 1) :
             crawled_pages[i].depth <= crawled_pages[i + 1].depth
       /\ \A j \in 2..Len(crawled_pages) :
             /\ ParentsOf(crawled_pages[j].url) # {}
             /\ FirstParent(crawled_pages[j].url) < j
             /\ \A i \in 2..(j - 1) :
                   crawled_pages[i].depth = crawled_pages[j].depth
                   => EnqueuedBefore(crawled_pages[i].url, crawled_pages[j].url)

\* crawl() of one worker returned the star site down to depth 2: the root, its
\* three pages in the order of its links, then a page of depth 2
C11_Witness ==
    /\ crawl_pc = "returned"
    /\ concurrent_requests = 1
    /\ site = SiteStar
    /\ Len(crawled_pages) = 5
    /\ crawled_pages[2].depth = 1
    /\ crawled_pages[4].depth = 1
    /\ crawled_pages[5].depth = 2

\* a retry_with_backoff call has returned or raised
RetryReturned == call[1] = "retry_with_backoff" /\ result # None

\* min(base_delay * 2^k, max_delay)
CappedDelay(base_delay, k, max_delay) ==
    IF base_delay * (2 ^ k) < max_delay THEN base_delay * (2 ^ k) ELSE max_delay

\* the first attempt, of those made with max_retries, at which func succeeds;
\* 0 if none
FirstSuccess(script, max_retries) ==
    IF \E i \in 1..max_retries : script[i] = "ok"
    THEN CHOOSE i \in 1..max_retries :
            script[i] = "ok" /\ \A j \in 1..(i - 1) : script[j] # "ok"
    ELSE 0

\* C12: retry_with_backoff calls func at most max_retries times; it sleeps after a
\* failed attempt exactly when another attempt follows, the k-th sleep (k from 0)
\* lasting min(base_delay * 2^k, max_delay); with max_retries = 3 and a func that
\* fails twice and then succeeds, the call succeeds after the delays base_delay and
\* 2 * base_delay, each capped at max_delay.
C12_RetryBackoff ==
    RetryReturned
    => /\ result[1].attempts <= call[2].max_retries
       /\ Len(result[1].delays) =
             (IF result[1].attempts = 0 THEN 0 ELSE result[1].attempts - 1)
       /\ \A k \in 1..Len(result[1].delays) :
             result[1].delays[k] =
                CappedDelay(call[2].base_delay, k - 1, call[2].max_delay)
       /\ (call[2].max_retries = 3 /\ FirstSuccess(call[2].script, 3) = 3)
          => /\ result[1].ok
             /\ result[1].attempts = 3
             /\ result[1].delays =
                   << CappedDelay(call[2].base_delay, 0, call[2].max_delay),
                      CappedDelay(call[2].base_delay, 1, call[2].max_delay) >>

\* a call with max_retries = 3 succeeded at the third attempt; both delays were
\* capped
C12_Witness ==
    /\ RetryReturned
    /\ call[2].max_retries = 3
    /\ call[2].base_delay = 3
    /\ call[2].max_delay = 2
    /\ call[2].script[1] = "timeout"
    /\ call[2].script[2] = "http_error"
    /\ result[1].ok
    /\ result[1].delays = << 2, 2 >>

\* C13: for every max_retries >= 0, retry_with_backoff calls func at least once; it
\* returns at the first attempt that succeeds and calls func no more; when every
\* attempt fails it raises the exception of the last attempt.
C13_RetryAtLeastOnce ==
    RetryReturned
    => /\ result[1].attempts >= 1
       /\ FirstSuccess(call[2].script, call[2].max_retries) > 0
          => /\ result[1].ok
             /\ result[1].attempts = FirstSuccess(call[2].script, call[2].max_retries)
       /\ FirstSuccess(call[2].script, call[2].max_retries) = 0
          => /\ ~result[1].ok
             /\ result[1].error = "Navigation failed"

\* a _normalize_url call on a URL put together from parts has returned
NormalizeReturned ==
    call[1] = "_normalize_url" /\ result # None /\ call[2].url \in BuiltUrls

\* C14: _normalize_url is idempotent: normalizing a normalized URL changes nothing.
C14_NormalizeIdempotent ==
    NormalizeReturned => NormalizeUrl(result[1]) = result[1]

\* scheme://host/path of the parts
Stem(parts) == parts.scheme \o "://" \o parts.host \o parts.path

\* what C15 lets _normalize_url return for the URL of the parts: without a query,
\* the stem without its trailing slash; with a query, the stem, with or without
\* its trailing slash, and the query as it is
NormalizedForms(parts) ==
    IF parts.query = None \/ parts.query = Some("")
    THEN { RStrip(Stem(parts), "/") }
    ELSE { Stem(parts) \o "?" \o parts.query[1],
           RStrip(Stem(parts), "/") \o "?" \o parts.query[1] }

\* C15: _normalize_url drops the fragment and the trailing slash and keeps the
\* scheme, the host, the path and the query as they are.
C15_NormalizeKeepsParts ==
    NormalizeReturned
    => \A parts \in UrlParts :
          BuildUrl(parts) = call[2].url => result[1] \in NormalizedForms(parts)

\* an _is_valid_url call has returned
IsValidReturned == call[1] = "_is_valid_url" /\ result # None

\* the path ends in an extension of the deny list, in whatever case
EndsInSkipExtension(path) ==
    \E ext \in SkipExtensions : \E n \in 1..Len(path) : Lower(Drop(path, n)) = ext

\* C16: _is_valid_url is true exactly for the URLs whose scheme is http or https,
\* whose host is the base domain itself (not a subdomain) and whose path does not
\* end in an extension of the deny list; it is false for a malformed URL.
C16_IsValidExactly ==
    IsValidReturned
    => /\ \A parts \in UrlParts :
             BuildUrl(parts) = call[2].url
             => (result[1] <=> /\ parts.scheme \in {"http", "https"}
                               /\ parts.host = call[2].base_domain
                               /\ ~EndsInSkipExtension(parts.path))
       /\ call[2].url \in MalformedUrls => result[1] = FALSE

\* the page of a subdomain of the base domain was found invalid
C16_Witness ==
    /\ IsValidReturned
    /\ call[2].url = "http://w.a/p?q=1"
    /\ call[2].base_domain = "a"
    /\ result[1] = FALSE

\* a _filter_links call has returned
FilterLinksReturned == call[1] = "_filter_links" /\ result # None

\* the absolute, normalized form of the k-th link of the call
Resolved(k) == NormalizeUrl(UrlJoin(call[2].current_url, call[2].links[k]))

\* the position of the first link of the call whose resolved form is u
FirstLink(u) ==
    CHOOSE k \in 1..Len(call[2].links) :
       Resolved(k) = u /\ \A m \in 1..(k - 1) : Resolved(m) # u

Rejected(link, current_url) ==
    \/ link \in {"", "#"}
    \/ link = current_url \o "#"
    \/ StartsWith(link, "javascript:")
    \/ StartsWith(link, "mailto:")
    \/ StartsWith(link, "tel:")

\* the links of the list that are not rejected
NotRejected(links, current_url) ==
    SelectSeq(links, LAMBDA link : ~Rejected(link, current_url))

\* C18: empty, "#", javascript:, mailto: and tel: links add nothing to the
\* filtered links: the list is the one got without them, from _filter_links
\* alone and from get_links followed by _filter_links.
C18_RejectedLinksAddNothing ==
    /\ FilterLinksReturned
       => result[1] = FilterLinks(NotRejected(call[2].links, call[2].current_url),
                                  call[2].current_url, call[2].base_domain)
    /\ (call[1] = "get_links" /\ result # None)
       => result[1] = FilterLinks(GetLinks(NotRejected(call[2].hrefs,
                                                       call[2].current_url)),
                                  call[2].current_url, call[2].base_domain)

\* the navigation to the page times out at every attempt
NavTimesOut(page) == \A k \in 1..SettingsMaxRetries : page.nav[k] = "timeout"

\* C19: a page whose navigation times out at every attempt is recorded with
\* status TIMEOUT.
C19_NavigationTimeoutStatus ==
    \A i \in 1..Len(crawled_pages) :
       NavTimesOut(PageAt(site, crawled_pages[i].url))
       => crawled_pages[i].status = "TIMEOUT"

\* C20: a page whose extraction raises after a navigation that succeeded is
\* recorded with status SUCCESS (with the field missing), not ERROR or TIMEOUT.
C20_ExtractionFailureKeepsPage ==
    \A i \in 1..Len(crawled_pages) :
       (/\ ~NavFails(PageAt(site, crawled_pages[i].url))
        /\ PageAt(site, crawled_pages[i].url).extract # "ok")
       => crawled_pages[i].status = "SUCCESS"

\* C21: crawl() puts exactly one entry at the start, the normalized form of the
\* caller's root URL at depth 0, whatever the root URL (with a fragment, with a
\* trailing slash), so the first page claimed and recorded is the normalized root.
C21_SeedIsNormalizedRoot ==
    /\ crawl_pc = "starting"
       => url_queue = << << NormalizeUrl(args.base_url), 0 >> >>
    /\ visited_urls # {} => NormalizeUrl(args.base_url) \in visited_urls
    /\ crawled_pages # << >> => crawled_pages[1].url = NormalizeUrl(args.base_url)

\* the fetch of worker w ends in this step
FetchEndsNow(w) == worker_pc[w] = "fetch" /\ worker_pc'[w] # "fetch"

\* worker w fetches a page that loads and whose page.screenshot raises, with
\* screenshots asked for
ShotFails(w) ==
    /\ capture_screenshots
    /\ screenshot_dir # None
    /\ PageAt(site, worker_item[w][1]).shot = "fails"
    /\ PageAt(site, worker_item[w][1]).extract = "ok"
    /\ ~NavFails(PageAt(site, worker_item[w][1]))

\* C22: a page whose screenshot fails is recorded with status SUCCESS and no
\* screenshot path, with the links _filter_links gives, and those not yet visited
\* are put at the next depth as for any page fetched below max_depth.
C22_ScreenshotFailureNonFatal ==
    [][\A w \in Workers :
         (FetchEndsNow(w) /\ ShotFails(w))
         => /\ LastAppended.status = "SUCCESS"
            /\ LastAppended.screenshot_path = None
            /\ LastAppended.links =
                  FilterLinks(PageAt(site, worker_item[w][1]).links,
                              worker_item[w][1], base_domain)
            /\ url_queue' =
                  url_queue
                  \o (IF worker_item[w][2] < max_depth
                      THEN WithDepth(SelectSeq(LastAppended.links,
                                               LAMBDA l : l \notin visited_urls),
                                     worker_item[w][2] + 1)
                      ELSE << >>)]_vars

C22_Witness ==
    /\ site = SiteShots
    /\ \E i, j, k \in 1..Len(crawled_pages) :
          /\ crawled_pages[i].url = "http://a/p"
          /\ crawled_pages[i].status = "SUCCESS"
          /\ crawled_pages[i].screenshot_path = None
          /\ crawled_pages[j].url = "http://a/q"
          /\ crawled_pages[j].screenshot_path = Some("shots/q.png")
          /\ crawled_pages[k].screenshot_path = Some("shots/index.png")

\* the workers that hold a dequeued entry they have claimed
Claimed == { w \in Workers : worker_pc[w] \in {"sem", "newpage", "fetch", "close"} }

\* worker w claims the entry it holds in this step
Claims(w) == worker_pc[w] = "got" /\ worker_pc'[w] = "sem"

\* C23: a URL enters visited_urls when it is claimed, in the step that found it
\* absent, before the permit is acquired and before _fetch_page is called on it.
C23_VisitedAtClaim ==
    /\ [](\A w \in Claimed : worker_item[w][1] \in visited_urls)
    /\ [][\A w \in Workers :
            Claims(w) => /\ worker_item[w][1] \notin visited_urls
                         /\ visited_urls' = visited_urls \cup {worker_item[w][1]}
                         /\ semaphore' = semaphore
                         /\ fetch_count' = fetch_count]_vars

C23_Witness ==
    \E w, v \in Workers :
       /\ worker_pc[w] = "sem"
       /\ worker_item[w][1] \in visited_urls
       /\ worker_item[w][1] \notin DOMAIN fetch_count
       /\ worker_pc[v] = "fetch"

\* worker w, holding a dequeued entry while crawled_pages has max_pages pages,
\* goes on in this step
DecidesAtCeiling(w) ==
    /\ worker_pc[w] = "got"
    /\ Len(crawled_pages) >= max_pages
    /\ worker_pc'[w] # "got"

\* C24: once crawled_pages holds max_pages pages, an entry dequeued is dropped,
\* neither visited nor fetched, and a fetch under way still ends with its page
\* appended.
C24_CeilingDiscards ==
    [][\A w \in Workers :
         /\ DecidesAtCeiling(w)
            => /\ worker_pc'[w] = "get"
               /\ visited_urls' = visited_urls
               /\ fetch_count' = fetch_count
               /\ crawled_pages' = crawled_pages
               /\ unfinished_tasks' = unfinished_tasks - 1
         /\ FetchEndsNow(w)
            => /\ Len(crawled_pages') = Len(crawled_pages) + 1
               /\ LastAppended.url = worker_item[w][1]]_vars

C24_Witness ==
    /\ Len(crawled_pages) = max_pages + 1
    /\ \E w \in Workers : worker_pc[w] = "got" /\ worker_item[w][1] \notin visited_urls

\* C25: when join() returns and the workers are cancelled, the queue is empty and
\* no worker holds an entry: every entry put was dequeued, and dropped or fetched
\* with its page appended; crawl() returns only after that.
C25_ReturnsAfterAllProcessed ==
    /\ [][(crawl_pc = "join" /\ crawl_pc' = "stopping")
          => /\ url_queue = << >>
             /\ \A w \in Workers : /\ worker_pc[w] \in {"unborn", "get", "exited"}
                                   /\ worker_item[w] = NoItem
             /\ visited_urls = ResultUrls]_vars
    /\ [](crawl_pc \in {"stopping", "returned"}
          => /\ url_queue = << >>
             /\ \A w \in Workers : worker_pc[w] \in {"unborn", "cancelled", "exited"}
             /\ visited_urls = ResultUrls)

C25_Witness ==
    /\ crawl_pc = "returned"
    /\ concurrent_requests = 2
    /\ Len(crawled_pages) >= 3
    /\ \E w \in Workers : worker_pc[w] = "cancelled"

\* the entries put in this step
Put == SubSeq(url_queue', Len(url_queue') - (unfinished_tasks' - unfinished_tasks) + 1,
              Len(url_queue'))

\* C26: the seed has depth 0; every other entry is put by a worker whose page was
\* fetched at a depth below max_depth, with that depth plus one.
C26_ChildDepth ==
    /\ [][unfinished_tasks' > unfinished_tasks
          => \/ /\ crawl_pc = "start"
                /\ url_queue' = << << base_url, 0 >> >>
             \/ \E w \in Workers :
                   /\ FetchEndsNow(w)
                   /\ worker_item[w][2] < max_depth
                   /\ url_queue' = url_queue \o Put
                   /\ \A k \in 1..Len(Put) : Put[k][2] = worker_item[w][2] + 1]_vars
    /\ [](\A k \in 1..Len(url_queue) : url_queue[k][2] \in 0..max_depth)

C26_Witness ==
    /\ max_depth = 2
    /\ \E k \in 1..Len(url_queue) : url_queue[k][2] = 2
    /\ \E i \in 1..Len(crawled_pages) : crawled_pages[i].depth = 1

\* the workers that hold a permit and an open page
PageHolders == { w \in Workers : worker_pc[w] \in {"newpage", "fetch", "close"} }

\* the worker tasks crawl() has created
Spawned == { w \in Workers : worker_pc[w] # "unborn" }

\* C27: crawl() creates concurrent_requests workers; the pages open at any moment
\* are at most concurrent_requests, and a permit is held exactly while its page is
\* open, whether the fetch succeeds or new_page fails.
C27_BoundedConcurrency ==
    /\ crawl_pc \in {"join", "stopping", "returned"}
       => Cardinality(Spawned) = concurrent_requests
    /\ crawl_pc \in {"start", "starting", "raised"} => Spawned = {}
    /\ Cardinality(PageHolders) <= concurrent_requests
    /\ crawl_pc # "start"
       => semaphore = concurrent_requests - Cardinality(PageHolders)

C27_Witness ==
    /\ Cardinality(PageHolders) = 2
    /\ semaphore = 0
    /\ \E w, v \in Workers : worker_pc[w] = "fetch" /\ worker_pc[v] = "close"

\* _fetch_page was called on its own and returned
FetchPageReturned == call[1] = "_fetch_page" /\ result # None

\* how often step occurs in steps
Count(steps, step) == Cardinality({ i \in 1..Len(steps) : steps[i] = step })

\* the calls of _wait_for_dynamic_content and _trigger_lazy_loading
SettleStepNames ==
    {"wait_for_selector", "wait_for_load_state", "wait_for_timeout", "scroll",
     "scroll_top"}

\* C28: within one _fetch_page the settle protocol runs at most once: no page.goto
\* follows a settle step, whatever fails inside the settle protocol.
C28_SettleRunsOnce ==
    FetchPageReturned
    => /\ Count(result[1].steps, "wait_for_load_state") <= 1
       /\ \A i, j \in 1..Len(result[1].steps) :
             (i < j /\ result[1].steps[i] \in SettleStepNames)
             => result[1].steps[j] # "goto"

\* the place of each call in one page load
StepRank ==
    [goto |-> 1, wait_for_selector |-> 2, wait_for_load_state |-> 3,
     wait_for_timeout |-> 4, scroll |-> 5, scroll_top |-> 6, extract |-> 7,
     screenshot |-> 8]

\* the page.goto calls among the first j steps
Attempt(steps, j) == Count(SubSeq(steps, 1, j), "goto")

\* C29: the calls of a page load come in the order page.goto, selector wait,
\* network-idle wait, settle delay, scroll, scroll to the top; settle steps,
\* extraction and screenshot follow a page.goto that got a response below 400; a
\* screenshot is taken only after the scroll to the top of the same load.
C29_StepOrder ==
    FetchPageReturned
    => /\ result[1].steps[1] = "goto"
       /\ \A i \in 1..(Len(result[1].steps) - 1) :
             \/ result[1].steps[i + 1] = "goto"
             \/ StepRank[result[1].steps[i]] < StepRank[result[1].steps[i + 1]]
       /\ \A j \in 1..Len(result[1].steps) :
             result[1].steps[j] # "goto"
             => Responds(call[2].page.nav[Attempt(result[1].steps, j)])
       /\ \A j \in 1..Len(result[1].steps) :
             result[1].steps[j] = "screenshot"
             => \E i \in 1..(j - 1) :
                   /\ result[1].steps[i] = "scroll_top"
                   /\ Attempt(result[1].steps, i) = Attempt(result[1].steps, j)

\* the calls of a page load whose settle steps all ran, up to the extraction
FullLoad(wait_for_selector) ==
    << "goto" >>
    \o (IF wait_for_selector # None THEN << "wait_for_selector" >> ELSE << >>)
    \o << "wait_for_load_state", "wait_for_timeout", "scroll", "scroll_top",
          "extract" >>

\* the first page.goto of the fetch got a response and then the selector wait (if
\* configured) or the network-idle wait timed out
SettleWaitTimedOut ==
    \/ call[2].page.nav[1] = "selector_timeout" /\ call[2].wait_for_selector # None
    \/ call[2].page.nav[1] = "idle_timeout"

\* C30: when the selector wait or the network-idle wait times out, the other
\* settle steps still run, the navigation is not repeated, the extraction
\* follows, and the page is recorded with status SUCCESS if the extraction works.
C30_SettleTimeoutsNotFatal ==
    (FetchPageReturned /\ SettleWaitTimedOut)
    => /\ SubSeq(result[1].steps, 1, Len(FullLoad(call[2].wait_for_selector)))
          = FullLoad(call[2].wait_for_selector)
       /\ Count(result[1].steps, "goto") = 1
       /\ call[2].page.extract = "ok" => result[1].page.status = "SUCCESS"

C30_Witness ==
    /\ FetchPageReturned
    /\ call[2].page.nav = << "selector_timeout", "exception" >>
    /\ call[2].wait_for_selector # None
    /\ result[1].page.status = "SUCCESS"
    /\ result[1].steps[2] = "wait_for_selector"
    /\ Count(result[1].steps, "scroll_top") = 1

\* worker w, holding a dequeued entry whose URL is already visited, goes on in
\* this step
DecidesOnDuplicate(w) ==
    /\ worker_pc[w] = "got"
    /\ worker_item[w][1] \in visited_urls
    /\ worker_pc'[w] # "got"

\* C31: a dequeued entry whose URL is already visited is dropped: one task is
\* done and the worker goes back to the queue; no fetch starts, no page is
\* appended, visited_urls does not change and no entry is put.
C31_DuplicateDiscard ==
    [][\A w \in Workers :
         DecidesOnDuplicate(w)
         => /\ worker_pc' = [worker_pc EXCEPT ![w] = "get"]
            /\ unfinished_tasks' = unfinished_tasks - 1
            /\ url_queue' = url_queue
            /\ fetch_count' = fetch_count
            /\ crawled_pages' = crawled_pages
            /\ visited_urls' = visited_urls
            /\ semaphore' = semaphore]_vars

\* a duplicate entry is held by a worker below the page ceiling, another entry
\* still queued
C31_Witness ==
    \E w \in Workers :
       /\ worker_pc[w] = "got"
       /\ worker_item[w][1] \in visited_urls
       /\ Len(crawled_pages) < max_pages
       /\ url_queue # << >>

\* no worker was ended by new_page raising
NoWorkerDied == \A w \in Workers : worker_pc[w] # "dead"

\* entries are queued or a page is being fetched
WorkLeft == url_queue # << >> \/ \E w \in Workers : worker_pc[w] = "fetch"

\* C32: unless new_page raised, while the workers run and an entry is queued or a
\* fetch is under way, some worker has not ended, and the queue is drained in
\* the end.
C32_WorkerAliveWhileWork ==
    /\ []((crawl_pc = "join" /\ NoWorkerDied /\ WorkLeft) => LiveWorkers # {})
    /\ (crawl_pc = "join" /\ url_queue # << >>) ~> (url_queue = << >> \/ ~NoWorkerDied)

\* one of two workers timed out on the empty queue while the other fetched; the
\* links of that page are now queued
C32_Witness ==
    /\ crawl_pc = "join"
    /\ NoWorkerDied
    /\ url_queue # << >>
    /\ \E w, v \in Workers : worker_pc[w] = "exited" /\ worker_pc[v] = "close"

\* the workers that hold a claimed URL whose page is not appended: waiting for
\* the permit, opening the page, fetching, or ended by new_page raising
ClaimedNotAppended ==
    { w \in Workers : worker_pc[w] \in {"sem", "newpage", "fetch", "dead"} }

\* C33: visited_urls has as many URLs as pages are recorded plus URLs are claimed
\* and not yet appended, and the URL of every recorded page is in visited_urls.
C33_VisitedAccounting ==
    /\ Cardinality(visited_urls) = Len(crawled_pages) + Cardinality(ClaimedNotAppended)
    /\ ResultUrls \subseteq visited_urls
    /\ \A w \in ClaimedNotAppended :
          worker_item[w][1] \in visited_urls \ ResultUrls

\* two pages recorded, two more URLs claimed by workers that fetch
C33_Witness ==
    /\ Len(crawled_pages) = 2
    /\ Cardinality(visited_urls) = 4
    /\ \A w \in Workers : worker_pc[w] = "fetch"

\* the pages _fetch_page gives for the URLs the site serves
Fetched == { FetchPage(u, 0, PageAt(site, u)) : u \in DOMAIN site }

\* the links between URLs, as the recorded links of these pages give them
LinkGraph(pages) ==
    UNION { { << p.url, p.links[i] >> : i \in 1..Len(p.links) } : p \in pages }

RECURSIVE Reach(_, _)
\* the URLs at most k links from the seed
Reach(edges, k) ==
    IF k = 0 THEN {base_url}
    ELSE LET near == Reach(edges, k - 1)
         IN  near \cup { e[2] : e \in { d \in edges : d[1] \in near } }

\* the length of the shortest link path from the seed to url
Dist(edges, url) ==
    CHOOSE k \in 0..max_depth :
       url \in Reach(edges, k) /\ \A j \in 0..(k - 1) : url \notin Reach(edges, j)

\* every page within max_depth links of the seed loads: its fetch gives SUCCESS
EveryFetchSucceeds(pages, reach) ==
    \A u \in reach : \E p \in pages : p.url = u /\ p.status = "SUCCESS"

\* every fetch succeeds, max_pages is above the number of pages within max_depth
\* links of the seed, and each of these pages is recorded
Covers(pages, reach) ==
    (EveryFetchSucceeds(pages, reach) /\ max_pages > Cardinality(reach))
    => reach \subseteq ResultUrls

\* Covers, of the pages within max_depth links of the seed
CoversWithin(pages) == Covers(pages, Reach(LinkGraph(pages), max_depth))

\* C34 as claimed: for any number of workers, when crawl() returns, every fetch
\* succeeding and max_pages being above their number, every page within max_depth
\* links of the seed has a recorded page.
C34_CoversReachablePages ==
    crawl_pc = "returned"
    => CoversWithin(Fetched)

\* C34 amended: with one worker, when crawl() returns, every fetch succeeding and
\* max_pages being above their number, every page within max_depth links of the
\* seed has a recorded page.
C34_CoversReachablePagesOneWorker ==
    (crawl_pc = "returned" /\ concurrent_requests = 1)
    => CoversWithin(Fetched)

\* one worker crawled the six pages of SiteDiamond, the last three links deep
C34_Witness ==
    /\ crawl_pc = "returned"
    /\ concurrent_requests = 1
    /\ site = SiteDiamond
    /\ max_depth = 3
    /\ max_pages > 6
    /\ Len(crawled_pages) = 6
    /\ crawled_pages[6].depth = 3

\* every recorded page is a SUCCESS page
AllRecordedSucceeded ==
    \A i \in 1..Len(crawled_pages) : crawled_pages[i].status = "SUCCESS"

\* when every fetch succeeds, the depth of each recorded page is the length of
\* the shortest link path to it
DepthsAreShortest(pages, edges) ==
    EveryFetchSucceeds(pages, Reach(edges, max_depth))
    => \A i \in 1..Len(crawled_pages) :
          crawled_pages[i].depth = Dist(edges, crawled_pages[i].url)

\* DepthsAreShortest, by the links of the pages
DepthsAreShortestIn(pages) == DepthsAreShortest(pages, LinkGraph(pages))

\* C35 as claimed: for any number of workers, when every fetch succeeds the
\* depth of a recorded page is the length of the shortest link path to it.
C35_DepthIsShortestPath ==
    (crawled_pages # << >> /\ AllRecordedSucceeded)
    => DepthsAreShortestIn(Fetched)

\* C35 amended: with one worker, when every fetch succeeds the depth of a
\* recorded page is the length of the shortest link path to it.
C35_DepthIsShortestPathOneWorker ==
    (crawled_pages # << >> /\ concurrent_requests = 1 /\ AllRecordedSucceeded)
    => DepthsAreShortestIn(Fetched)

\* one worker recorded the page that two paths reach, at the depth of the
\* shorter one
C35_Witness ==
    /\ concurrent_requests = 1
    /\ site = SiteDiamond
    /\ max_depth = 3
    /\ \E i \in 1..Len(crawled_pages) :
          crawled_pages[i].url = "http://a/x" /\ crawled_pages[i].depth = 2
    /\ "http://a/q" \in ResultUrls

\* the workers inside _fetch_page
Fetching == { w \in Workers : worker_pc[w] = "fetch" }

\* crawl() leaves in this step, by its return or by an exception
CrawlExits ==
    /\ crawl_pc \notin {"returned", "raised"}
    /\ crawl_pc' \in {"returned", "raised"}

\* C36: whenever crawl() returns or raises with the browser started, the step
\* that leaves it stops the browser, and no worker is inside _fetch_page at
\* that moment.
C36_BrowserStoppedNoFetchInFlight ==
    [][(CrawlExits /\ browser = "started")
       => (browser' = "stopped" /\ Fetching = {})]_vars

\* C37: once crawl() has returned or raised, every worker task that was created
\* has ended or has been cancelled.
C37_NoWorkerOutlivesCrawl ==
    crawl_pc \in {"returned", "raised"} => Spawned \cap LiveWorkers = {}

====
